---- MODULE Spec2Model ----
(***************************************************************************)
(* PixelPulse: the room playback engine of server/routes.ts.               *)
(*                                                                         *)
(* The state is the four module-level maps (roomStates, roomListeners,     *)
(* songVotes, roomMessages), the per-connection closure variables          *)
(* (currentRoomId, currentUserId), the room registry behind storage, and   *)
(* the wall clock.  There is one action per socket handler, one for the    *)
(* POST /api/rooms route and one for the setInterval callback.  Node runs  *)
(* each handler to completion, so a handler is one atomic step.  The       *)
(* route awaits the registry twice; CreateRoomLookup and CreateRoomStore   *)
(* are its two halves, with `pending` the requests between them.           *)
(*                                                                         *)
(* Time is counted in whole seconds: Date.now() is `now`, and              *)
(* elapsedMs / 1000 is a difference of two clock readings.                 *)
(*                                                                         *)
(* `sent` holds the messages emitted by the latest step and `last` names   *)
(* the latest handler invocation: the handler, the socket, the room, the   *)
(* arguments (for toggleShuffle, the playlist it read), how it ended and   *)
(* the clock reading.  Both are observation variables.                     *)
(***************************************************************************)
EXTENDS Integers, Sequences, FiniteSets, TLC

VARIABLES roomStates, roomListeners, songVotes, roomMessages,
          storageRooms, roomSeq, pending, sockets, now, timerDue, sent, last

vars == <<roomStates, roomListeners, songVotes, roomMessages,
          storageRooms, roomSeq, pending, sockets, now, timerDue, sent, last>>

\* The four maps of the engine.
maps == <<roomStates, roomListeners, songVotes, roomMessages>>

\* The room registry.
registry == <<storageRooms, roomSeq, pending>>

\* The clock and the interval timer.
clock == <<now, timerDue>>

----------------------------------------------------------------------------
(* Bounds of the explored environment *)

\* Longest originalPlaylist an Add may produce.
MaxLen == 3

\* Last clock reading explored.
MaxTime == 9

\* Most private rooms the registry hands out to interleaved requests.
MaxRooms == 2

----------------------------------------------------------------------------
(* Identities *)

PublicRoomId == 0

PrivateRoomIds == {1}

RoomIds == {PublicRoomId} \cup PrivateRoomIds

NoRoom == -1

SocketIds == {1, 2, 3}

System == "system"

Null == "null"

Undefined == "undefined"

\* Clock reading when the server starts.
StartTime == 1

\* Seconds between two runs of the auto-advance callback (5000 ms).
PollInterval == 5

\* The number of chat messages a room keeps.
MessageLimit == 100

----------------------------------------------------------------------------
(* Maps *)

EmptyMap == << >>

MapHas(m, k) == k \in DOMAIN m

MapSet(m, k, v) == [x \in (DOMAIN m) \cup {k} |-> IF x = k THEN v ELSE m[x]]

MapDelete(m, k) == [x \in (DOMAIN m) \ {k} |-> m[x]]

MapSize(m) == Cardinality(DOMAIN m)

----------------------------------------------------------------------------
(* Songs: an id and a duration text "M:SS", kept as its characters *)

Digits == <<"0", "1", "2", "3", "4", "5", "6", "7", "8", "9">>

DigitValue(c) == (CHOOSE i \in 1..10 : Digits[i] = c) - 1

\* parseInt of a run of decimal digits.
RECURSIVE ParseInt(_)
ParseInt(cs) ==
    IF cs = << >> THEN 0
    ELSE 10 * ParseInt(SubSeq(cs, 1, Len(cs) - 1)) + DigitValue(cs[Len(cs)])

\* text.split(':')
RECURSIVE Split(_)
Split(cs) ==
    IF \A i \in 1..Len(cs) : cs[i] # ":" THEN <<cs>>
    ELSE LET k == CHOOSE i \in 1..Len(cs) :
                      cs[i] = ":" /\ \A j \in 1..(i - 1) : cs[j] # ":"
         IN  <<SubSeq(cs, 1, k - 1)>> \o Split(SubSeq(cs, k + 1, Len(cs)))

SongA == [id |-> "a", duration |-> <<"0", ":", "0", "2">>]

SongB == [id |-> "b", duration |-> <<"0", ":", "0", "1">>]

\* durationParts[0] * 60 + (durationParts[1] || '0')
DurationSeconds(song) ==
    LET durationParts == Split(song.duration)
    IN  ParseInt(durationParts[1]) * 60
          + (IF Len(durationParts) >= 2 THEN ParseInt(durationParts[2]) ELSE 0)

----------------------------------------------------------------------------
(* Room playback state *)

NewRoomState(creator) ==
    [playlist |-> << >>,
     currentSongIndex |-> 0,
     isPlaying |-> FALSE,
     playbackStartTime |-> 0,
     pausedAt |-> 0,
     createdBy |-> creator,
     isShuffled |-> FALSE,
     isLooped |-> FALSE,
     originalPlaylist |-> << >>]

\* Array.findIndex(song => song.id === id): 0-based, -1 when there is none.
FindIndex(list, id) ==
    IF \E i \in 1..Len(list) : list[i].id = id
    THEN (CHOOSE i \in 1..Len(list) :
              list[i].id = id /\ \A j \in 1..(i - 1) : list[j].id # id) - 1
    ELSE -1

\* The found index dropped and 0 taken in its place: the index is reset
\* rather than relocated.
OrZeroReset(x) == 0

\* x || 0 on a number: only 0 is falsy, so -1 stays -1.
OrZero(x) == IF x = 0 THEN 0 ELSE x

\* list.splice(index, 1), index 0-based and in range.
RemoveAt(list, index) ==
    SubSeq(list, 1, index) \o SubSeq(list, index + 2, Len(list))

\* list.splice(index, 0, item), index 0-based.
InsertAt(list, index, item) ==
    SubSeq(list, 1, index) \o <<item>> \o SubSeq(list, index + 1, Len(list))

\* playlist[currentSongIndex] is an element (not undefined).
HasCurrentSong(st) ==
    st.currentSongIndex >= 0 /\ st.currentSongIndex < Len(st.playlist)

\* playlist[currentSongIndex]?.id
CurrentSongId(st) ==
    IF HasCurrentSong(st) THEN st.playlist[st.currentSongIndex + 1].id
    ELSE Undefined

\* The play-head at clock reading t.
PlayHead(st, t) ==
    IF st.isPlaying THEN st.pausedAt + (t - st.playbackStartTime)
    ELSE st.pausedAt

\* RequiredVotes rounding down: Math.floor(totalListeners / 2).
RequiredVotesFloor(totalListeners) == totalListeners \div 2

\* Math.ceil(totalListeners / 2)
RequiredVotes(totalListeners) == (totalListeners + 1) \div 2

----------------------------------------------------------------------------
(* Messages *)

\* The sockets in the socket.io room of roomId: io.to(roomId).
InRoom(roomId) ==
    {s \in SocketIds : sockets[s].connected /\ sockets[s].currentRoomId = roomId}

\* PlaylistUpdates as one payload for the socket.io room, io.to(roomId).emit,
\* which cannot tell its recipients apart.
PlaylistUpdatesToRoom(listeners, roomId, st, extra) ==
    {[to |-> l, event |-> "playlistUpdate", state |-> st, serverTime |-> now,
      isCreator |-> FALSE, extra |-> extra] : l \in InRoom(roomId)}

\* PlaylistUpdates as one payload for every connected client, io.emit.
PlaylistUpdatesToAll(listeners, roomId, st, extra) ==
    {[to |-> l, event |-> "playlistUpdate", state |-> st, serverTime |-> now,
      isCreator |-> FALSE, extra |-> extra] :
         l \in {s \in SocketIds : sockets[s].connected}}

\* listeners.forEach(listener => io.to(listener.socketId).emit('playlistUpdate', ...))
PlaylistUpdates(listeners, roomId, st, extra) ==
    IF MapHas(listeners, roomId)
    THEN {[to |-> l, event |-> "playlistUpdate", state |-> st,
           serverTime |-> now,
           isCreator |-> (listeners[roomId][l].userId = st.createdBy),
           extra |-> extra] : l \in DOMAIN listeners[roomId]}
    ELSE {}

NoExtra == [preserveAudioState |-> FALSE]

PreserveAudio == [preserveAudioState |-> TRUE]

Invocation(op, s, roomId, args, result) ==
    [op |-> op, socket |-> s, room |-> roomId, args |-> args,
     result |-> result, at |-> now]

----------------------------------------------------------------------------
(* Initial state: the server has started and created the public room, and *)
(* the clients in `clients` have connected.                                *)

InitWith(clients) ==
    /\ roomStates = (PublicRoomId :> NewRoomState(System))
    /\ roomListeners = (PublicRoomId :> EmptyMap)
    /\ songVotes = (PublicRoomId :> EmptyMap)
    /\ roomMessages = (PublicRoomId :> << >>)
    /\ storageRooms = (PublicRoomId :> [name |-> "Public Room", createdBy |-> System])
    /\ roomSeq = 0
    /\ pending = {}
    /\ sockets = [s \in SocketIds |->
                    [connected |-> s \in clients, currentRoomId |-> NoRoom,
                     currentUserId |-> Null]]
    /\ now = StartTime
    /\ timerDue = StartTime + PollInterval
    /\ sent = {}
    /\ last = Invocation("start", 0, NoRoom, << >>, "none")

----------------------------------------------------------------------------
(* POST /api/rooms.  The registry (server/storage.ts) hands out a fresh id. *)

StorageGetRoomByName(name) ==
    {id \in DOMAIN storageRooms : storageRooms[id].name = name}

CreateRoom(name, createdBy) ==
    /\ StorageGetRoomByName(name) = {}
    /\ roomSeq < Cardinality(PrivateRoomIds)
    /\ LET id == roomSeq + 1
       IN  /\ roomSeq' = id
           /\ storageRooms' = MapSet(storageRooms, id,
                                     [name |-> name, createdBy |-> createdBy])
           /\ roomStates' = MapSet(roomStates, id, NewRoomState(createdBy))
           /\ roomListeners' = MapSet(roomListeners, id, EmptyMap)
           /\ songVotes' = MapSet(songVotes, id, EmptyMap)
           /\ roomMessages' = MapSet(roomMessages, id, << >>)
           /\ last' = Invocation("createRoom", 0, id, <<name, createdBy>>, "applied")
    /\ sent' = {}
    /\ UNCHANGED <<pending, sockets, clock>>

\* The same request as the event loop runs it: the handler up to its first
\* await (the lookup by name and the test on its result) and, in a later turn
\* of the loop, the rest.  `pending` holds the requests between the two.

\* const existingRoom = await storage.getRoomByName(name); if (existingRoom) ...
CreateRoomLookup(name, createdBy) ==
    /\ [name |-> name, createdBy |-> createdBy] \notin pending
    /\ IF StorageGetRoomByName(name) # {}
       THEN /\ pending' = pending
            /\ last' = Invocation("createRoom", 0, NoRoom, <<name, createdBy>>,
                                  "rejected")
       ELSE /\ pending' = pending \cup {[name |-> name, createdBy |-> createdBy]}
            /\ last' = Invocation("createRoom", 0, NoRoom, <<name, createdBy>>,
                                  "pending")
    /\ sent' = {}
    /\ UNCHANGED <<maps, storageRooms, roomSeq, sockets, clock>>

\* storage.createRoom (server/storage.ts): a plain insert under a fresh id.
StorageCreateRoom(rooms, id, name, createdBy) ==
    MapSet(rooms, id, [name |-> name, createdBy |-> createdBy])

\* const room = await storage.createRoom(...); roomStates.set(room.id, ...) ...
CreateRoomStore(request) ==
    /\ request \in pending
    /\ roomSeq < MaxRooms
    /\ LET id == roomSeq + 1
       IN  /\ roomSeq' = id
           /\ storageRooms' = StorageCreateRoom(storageRooms, id, request.name,
                                                request.createdBy)
           /\ roomStates' = MapSet(roomStates, id, NewRoomState(request.createdBy))
           /\ roomListeners' = MapSet(roomListeners, id, EmptyMap)
           /\ songVotes' = MapSet(songVotes, id, EmptyMap)
           /\ roomMessages' = MapSet(roomMessages, id, << >>)
           /\ last' = Invocation("createRoom", 0, id,
                                 <<request.name, request.createdBy>>, "applied")
    /\ pending' = pending \ {request}
    /\ sent' = {}
    /\ UNCHANGED <<sockets, clock>>

----------------------------------------------------------------------------
(* socket.on('joinRoom') *)

\* The position joinRoom reports.
JoinPosition(st) ==
    IF st.isPlaying /\ st.playbackStartTime > 0
    THEN st.pausedAt + (now - st.playbackStartTime)
    ELSE st.pausedAt

JoinRoom(s, roomId, userId) ==
    /\ sockets[s].connected
    /\ sockets' = [sockets EXCEPT ![s].currentRoomId = roomId,
                                  ![s].currentUserId = userId]
    /\ LET old == IF MapHas(roomListeners, roomId)
                  THEN roomListeners[roomId] ELSE EmptyMap
       IN  roomListeners' = MapSet(roomListeners, roomId,
                                   MapSet(old, s, [userId |-> userId]))
    /\ sent' =
         (IF MapHas(roomStates, roomId)
          THEN {[to |-> s, event |-> "playlistUpdate",
                 state |-> roomStates[roomId], serverTime |-> now,
                 isCreator |-> (userId = roomStates[roomId].createdBy),
                 extra |-> [currentPosition |-> JoinPosition(roomStates[roomId])]]}
          ELSE {})
         \cup {[to |-> t, event |-> "listenersUpdate",
                listeners |-> DOMAIN roomListeners'[roomId]] :
                   t \in {x \in SocketIds : x = s \/ (sockets[x].connected
                                     /\ sockets[x].currentRoomId = roomId)}}
    /\ last' = Invocation("joinRoom", s, roomId, <<userId>>, "applied")
    /\ UNCHANGED <<roomStates, songVotes, roomMessages, registry, clock>>

----------------------------------------------------------------------------
(* socket.on('addToPlaylist') *)

\* IsDuplicate comparing objects (existingSong === song): a song sent again
\* is a new object, so nothing matches.
IsDuplicateByIdentity(playlist, song) == FALSE

\* roomState.playlist.some(existingSong => existingSong.id === song.id)
IsDuplicate(playlist, song) ==
    \E i \in 1..Len(playlist) : playlist[i].id = song.id

\* After the push: if (roomState.playlist.length === 1 && !roomState.isPlaying)
StartIfFirst(pushed) ==
    IF Len(pushed.playlist) = 1 /\ ~pushed.isPlaying
    THEN [pushed EXCEPT !.currentSongIndex = 0,
                        !.isPlaying = TRUE,
                        !.playbackStartTime = now,
                        !.pausedAt = 0]
    ELSE pushed

AddToPlaylist(s, song, roomId) ==
    /\ sockets[s].connected
    /\ IF ~MapHas(roomStates, roomId)
       THEN /\ sent' = {}
            /\ last' = Invocation("addToPlaylist", s, roomId, <<song.id>>, "ignored")
            /\ UNCHANGED <<roomStates, songVotes>>
       ELSE LET roomState == roomStates[roomId]
            IN  IF IsDuplicate(roomState.playlist, song)
                THEN /\ sent' = {[to |-> s, event |-> "error",
                                  message |-> "Song already in playlist"]}
                     /\ last' = Invocation("addToPlaylist", s, roomId,
                                           <<song.id>>, "rejected")
                     /\ UNCHANGED <<roomStates, songVotes>>
                ELSE LET pushed == [roomState EXCEPT
                                      !.playlist = Append(@, song),
                                      !.originalPlaylist = Append(@, song)]
                         after == StartIfFirst(pushed)
                         roomVotes == IF MapHas(songVotes, roomId)
                                      THEN songVotes[roomId] ELSE EmptyMap
                     IN  /\ Len(roomState.originalPlaylist) < MaxLen
                         /\ roomStates' = MapSet(roomStates, roomId, after)
                         /\ songVotes' = MapSet(songVotes, roomId,
                                                MapSet(roomVotes, song.id, {}))
                         /\ sent' = PlaylistUpdates(roomListeners, roomId, after,
                                                    PreserveAudio)
                         /\ last' = Invocation("addToPlaylist", s, roomId,
                                               <<song.id>>, "applied")
    /\ UNCHANGED <<roomListeners, roomMessages, registry, sockets, clock>>

----------------------------------------------------------------------------
(* socket.on('voteSong') *)

\* VotedOut that leaves currentSongIndex alone.
VotedOutNoAdjust(roomState, songIndex) ==
    [roomState EXCEPT !.playlist = RemoveAt(@, songIndex)]

\* The room state after the song at songIndex is voted out.
VotedOut(roomState, songIndex) ==
    [roomState EXCEPT
       !.playlist = RemoveAt(@, songIndex),
       !.currentSongIndex = IF songIndex <= @ /\ @ > 0 THEN @ - 1 ELSE @]

VoteSong(s, songId, roomId) ==
    /\ sockets[s].connected
    /\ LET currentUserId == sockets[s].currentUserId
       IN  IF \/ currentUserId = Null
              \/ ~MapHas(roomListeners, roomId)
              \/ ~MapHas(songVotes, roomId)
              \/ ~MapHas(songVotes[roomId], songId)
           THEN /\ sent' = {}
                /\ last' = Invocation("voteSong", s, roomId, <<songId>>, "ignored")
                /\ UNCHANGED <<roomStates, songVotes>>
           ELSE LET roomVotes == songVotes[roomId]
                    totalListeners == MapSize(roomListeners[roomId])
                    requiredVotes == RequiredVotes(totalListeners)
                    votes == IF currentUserId \in roomVotes[songId]
                             THEN roomVotes[songId] \ {currentUserId}
                             ELSE roomVotes[songId] \cup {currentUserId}
                    toggled == MapSet(roomVotes, songId, votes)
                    songIndex == IF MapHas(roomStates, roomId)
                                 THEN FindIndex(roomStates[roomId].playlist, songId)
                                 ELSE -1
                    remove == Cardinality(votes) >= requiredVotes /\ songIndex # -1
                    after == VotedOut(roomStates[roomId], songIndex)
                    voteUpdate == {[to |-> t, event |-> "voteUpdate",
                                    songId |-> songId,
                                    votes |-> Cardinality(votes),
                                    required |-> requiredVotes,
                                    hasVoted |-> (currentUserId \in votes)] :
                                       t \in InRoom(roomId)}
                IN  IF remove
                    THEN /\ roomStates' = MapSet(roomStates, roomId, after)
                         /\ songVotes' = MapSet(songVotes, roomId,
                                                MapDelete(toggled, songId))
                         /\ sent' = PlaylistUpdates(roomListeners, roomId, after,
                                                    NoExtra) \cup voteUpdate
                         /\ last' = Invocation("voteSong", s, roomId,
                                               <<songId>>, "removed")
                    ELSE /\ roomStates' = roomStates
                         /\ songVotes' = MapSet(songVotes, roomId, toggled)
                         /\ sent' = voteUpdate
                         /\ last' = Invocation("voteSong", s, roomId,
                                               <<songId>>, "counted")
    /\ UNCHANGED <<roomListeners, roomMessages, registry, sockets, clock>>

----------------------------------------------------------------------------
(* Authority checks *)

\* TransportAllowed without its test for the "system" creator.
TransportAllowedCreatorOnly(s, roomId) ==
    /\ MapHas(roomStates, roomId)
    /\ sockets[s].currentUserId # Null
    /\ roomStates[roomId].createdBy = sockets[s].currentUserId

\* if (!roomState || !currentUserId) return;
\* if (roomState.createdBy !== currentUserId || roomState.createdBy === "system") return;
TransportAllowed(s, roomId) ==
    /\ MapHas(roomStates, roomId)
    /\ sockets[s].currentUserId # Null
    /\ ~(\/ roomStates[roomId].createdBy # sockets[s].currentUserId
         \/ roomStates[roomId].createdBy = System)

\* PlaylistControlAllowed without its test for the creator.
PlaylistControlAllowedAnyUser(s, roomId) ==
    /\ MapHas(roomStates, roomId)
    /\ sockets[s].currentUserId # Null

\* if (!roomState || !currentUserId) return;
\* if (roomState.createdBy !== "system" && roomState.createdBy !== currentUserId) return;
PlaylistControlAllowed(s, roomId) ==
    /\ MapHas(roomStates, roomId)
    /\ sockets[s].currentUserId # Null
    /\ ~(/\ roomStates[roomId].createdBy # System
         /\ roomStates[roomId].createdBy # sockets[s].currentUserId)

\* A handler that returned before touching anything.
Ignored(op, s, roomId, args) ==
    /\ sent' = {}
    /\ last' = Invocation(op, s, roomId, args, "ignored")
    /\ UNCHANGED roomStates

\* Applied that emits before it writes: the listeners get the state the
\* handler found.
AppliedEmitFirst(op, s, roomId, args, after, extra) ==
    /\ roomStates' = MapSet(roomStates, roomId, after)
    /\ sent' = PlaylistUpdates(roomListeners, roomId, roomStates[roomId], extra)
    /\ last' = Invocation(op, s, roomId, args, "applied")

\* A handler that replaced the room's state and sent it to every listener.
Applied(op, s, roomId, args, after, extra) ==
    /\ roomStates' = MapSet(roomStates, roomId, after)
    /\ sent' = PlaylistUpdates(roomListeners, roomId, after, extra)
    /\ last' = Invocation(op, s, roomId, args, "applied")

----------------------------------------------------------------------------
(* socket.on('togglePlayPause') *)

\* PausedPosition that forgets the time played since playbackStartTime.
PausedPositionNoElapsed(roomState) == roomState.pausedAt

\* roomState.pausedAt + (elapsedMs / 1000) when pausing.
PausedPosition(roomState) ==
    roomState.pausedAt + (now - roomState.playbackStartTime)

TogglePlayPause(s, roomId) ==
    /\ sockets[s].connected
    /\ IF ~TransportAllowed(s, roomId)
       THEN Ignored("togglePlayPause", s, roomId, << >>)
       ELSE LET roomState == roomStates[roomId]
                after == IF ~roomState.isPlaying
                         THEN [roomState EXCEPT !.isPlaying = TRUE,
                                                !.playbackStartTime = now]
                         ELSE [roomState EXCEPT
                                 !.isPlaying = FALSE,
                                 !.pausedAt = PausedPosition(roomState)]
            IN  Applied("togglePlayPause", s, roomId, << >>, after, NoExtra)
    /\ UNCHANGED <<roomListeners, songVotes, roomMessages, registry, sockets, clock>>

----------------------------------------------------------------------------
(* socket.on('seek') *)

\* SeekState that never stamps playbackStartTime.
SeekStateNoStamp(roomState, position, isPlaying) ==
    [roomState EXCEPT !.isPlaying = isPlaying, !.pausedAt = position]

\* The room state the seek handler leaves.
SeekState(roomState, position, isPlaying) ==
    [roomState EXCEPT
       !.isPlaying = isPlaying,
       !.pausedAt = position,
       !.playbackStartTime = IF isPlaying THEN now ELSE @]

Seek(s, position, roomId, isPlaying) ==
    /\ sockets[s].connected
    /\ IF ~TransportAllowed(s, roomId)
       THEN Ignored("seek", s, roomId, <<position, isPlaying>>)
       ELSE LET after == SeekState(roomStates[roomId], position, isPlaying)
            IN  Applied("seek", s, roomId, <<position, isPlaying>>, after,
                        [currentPosition |-> position, isPlaying |-> isPlaying])
    /\ UNCHANGED <<roomListeners, songVotes, roomMessages, registry, sockets, clock>>

----------------------------------------------------------------------------
(* socket.on('nextSong'), socket.on('previousSong') *)

\* The index nextSong moves to (playlist not empty).
NextCursor(roomState) ==
    LET n == Len(roomState.playlist)
        currentSongIndex == roomState.currentSongIndex
    IN  IF roomState.isLooped /\ currentSongIndex = n - 1 THEN 0
        ELSE (currentSongIndex + 1) % n

\* The index previousSong moves to (playlist not empty).
PreviousCursor(roomState) ==
    LET n == Len(roomState.playlist)
        currentSongIndex == roomState.currentSongIndex
    IN  IF currentSongIndex > 0 THEN currentSongIndex - 1 ELSE n - 1

NextSong(s, roomId) ==
    /\ sockets[s].connected
    /\ IF ~TransportAllowed(s, roomId)
       THEN Ignored("nextSong", s, roomId, << >>)
       ELSE LET roomState == roomStates[roomId]
                n == Len(roomState.playlist)
                after == [roomState EXCEPT
                            !.currentSongIndex = NextCursor(roomState),
                            !.pausedAt = 0,
                            !.playbackStartTime = now]
            IN  IF n > 0
                THEN Applied("nextSong", s, roomId, << >>, after, NoExtra)
                ELSE Ignored("nextSong", s, roomId, << >>)
    /\ UNCHANGED <<roomListeners, songVotes, roomMessages, registry, sockets, clock>>

PreviousSong(s, roomId) ==
    /\ sockets[s].connected
    /\ IF ~TransportAllowed(s, roomId)
       THEN Ignored("previousSong", s, roomId, << >>)
       ELSE LET roomState == roomStates[roomId]
                n == Len(roomState.playlist)
                after == [roomState EXCEPT
                            !.currentSongIndex = PreviousCursor(roomState),
                            !.pausedAt = 0,
                            !.playbackStartTime = now]
            IN  IF n > 0
                THEN Applied("previousSong", s, roomId, << >>, after, NoExtra)
                ELSE Ignored("previousSong", s, roomId, << >>)
    /\ UNCHANGED <<roomListeners, songVotes, roomMessages, registry, sockets, clock>>

----------------------------------------------------------------------------
(* socket.on('toggleShuffle') *)

\* Shuffles whose swap copies one entry over the other: an entry may be
\* lost and another repeated.
ShufflesWithCopies(list) ==
    {[i \in 1..Len(list) |-> list[p[i]]] :
        p \in [1..Len(list) -> 1..Len(list)]}

\* Every order the Fisher-Yates loop can leave the copy in.
Shuffles(list) ==
    {[i \in 1..Len(list) |-> list[p[i]]] :
        p \in {q \in [1..Len(list) -> 1..Len(list)] :
                  \A i, j \in 1..Len(list) : q[i] = q[j] => i = j}}

ToggleShuffle(s, roomId) ==
    /\ sockets[s].connected
    /\ IF ~PlaylistControlAllowed(s, roomId)
       THEN Ignored("toggleShuffle", s, roomId, << >>)
       ELSE LET roomState == roomStates[roomId]
                currentSongId == CurrentSongId(roomState)
            IN  IF ~roomState.isShuffled
                THEN \E shuffled \in Shuffles(roomState.playlist) :
                        Applied("toggleShuffle", s, roomId, <<roomState.playlist>>,
                                [roomState EXCEPT
                                   !.isShuffled = TRUE,
                                   !.playlist = shuffled,
                                   !.currentSongIndex =
                                       OrZero(FindIndex(shuffled, currentSongId))],
                                NoExtra)
                ELSE Applied("toggleShuffle", s, roomId, <<roomState.playlist>>,
                             [roomState EXCEPT
                                !.isShuffled = FALSE,
                                !.playlist = roomState.originalPlaylist,
                                !.currentSongIndex =
                                    OrZero(FindIndex(roomState.originalPlaylist,
                                                     currentSongId))],
                             NoExtra)
    /\ UNCHANGED <<roomListeners, songVotes, roomMessages, registry, sockets, clock>>

----------------------------------------------------------------------------
(* socket.on('toggleLoop') *)

ToggleLoop(s, roomId) ==
    /\ sockets[s].connected
    /\ IF ~PlaylistControlAllowed(s, roomId)
       THEN Ignored("toggleLoop", s, roomId, << >>)
       ELSE Applied("toggleLoop", s, roomId, << >>,
                    [roomStates[roomId] EXCEPT !.isLooped = ~@], NoExtra)
    /\ UNCHANGED <<roomListeners, songVotes, roomMessages, registry, sockets, clock>>

----------------------------------------------------------------------------
(* socket.on('reorderSongs') *)

\* ReorderIndex that follows a moved current song but never shifts for a song
\* moved across it.
ReorderIndexNoShift(currentSongIndex, fromIndex, toIndex) ==
    IF currentSongIndex = fromIndex THEN toIndex ELSE currentSongIndex

\* The index of the current song after moving fromIndex to toIndex.
ReorderIndex(currentSongIndex, fromIndex, toIndex) ==
    IF currentSongIndex = fromIndex THEN toIndex
    ELSE IF fromIndex < currentSongIndex /\ toIndex >= currentSongIndex
         THEN currentSongIndex - 1
    ELSE IF fromIndex > currentSongIndex /\ toIndex <= currentSongIndex
         THEN currentSongIndex + 1
    ELSE currentSongIndex

ReorderSongs(s, roomId, fromIndex, toIndex) ==
    /\ sockets[s].connected
    /\ IF ~PlaylistControlAllowed(s, roomId)
       THEN Ignored("reorderSongs", s, roomId, <<fromIndex, toIndex>>)
       ELSE LET roomState == roomStates[roomId]
                n == Len(roomState.playlist)
                playlist == InsertAt(RemoveAt(roomState.playlist, fromIndex),
                                     toIndex, roomState.playlist[fromIndex + 1])
                after == [roomState EXCEPT
                            !.playlist = playlist,
                            !.originalPlaylist = playlist,
                            !.currentSongIndex =
                                ReorderIndex(@, fromIndex, toIndex)]
            IN  IF fromIndex >= 0 /\ fromIndex < n /\ toIndex >= 0 /\ toIndex < n
                THEN Applied("reorderSongs", s, roomId, <<fromIndex, toIndex>>,
                             after, PreserveAudio)
                ELSE /\ sent' = {}
                     /\ last' = Invocation("reorderSongs", s, roomId,
                                           <<fromIndex, toIndex>>, "invalid")
                     /\ UNCHANGED roomStates
    /\ UNCHANGED <<roomListeners, songVotes, roomMessages, registry, sockets, clock>>

----------------------------------------------------------------------------
(* socket.on('sendMessage').  A message text is a sequence of characters. *)

\* String.prototype.trim on a text of letters and spaces.
RECURSIVE Trim(_)

Trim(cs) ==
    IF cs = << >> THEN << >>
    ELSE IF Head(cs) = " " THEN Trim(Tail(cs))
    ELSE IF cs[Len(cs)] = " " THEN Trim(SubSeq(cs, 1, Len(cs) - 1))
    ELSE cs

\* messages.splice(0, messages.length - 100) once there are more than 100.
KeepLast(messages) ==
    IF Len(messages) > MessageLimit
    THEN SubSeq(messages, Len(messages) - MessageLimit + 1, Len(messages))
    ELSE messages

SendMessage(s, roomId, message) ==
    /\ sockets[s].connected
    /\ LET currentUserId == sockets[s].currentUserId
           accepted == /\ currentUserId # Null
                       /\ sockets[s].currentRoomId # NoRoom
                       /\ Trim(message) # << >>
                       /\ MapHas(roomListeners, roomId)
                       /\ MapHas(roomListeners[roomId], s)
           chatMessage == [id |-> now, userId |-> currentUserId,
                           message |-> Trim(message), timestamp |-> now]
           messages == IF MapHas(roomMessages, roomId)
                       THEN roomMessages[roomId] ELSE << >>
       IN  IF accepted
           THEN /\ Len(messages) < MaxLen
                /\ roomMessages' = MapSet(roomMessages, roomId,
                                          KeepLast(Append(messages, chatMessage)))
                /\ sent' = {[to |-> t, event |-> "newMessage",
                             message |-> chatMessage] : t \in InRoom(roomId)}
                /\ last' = Invocation("sendMessage", s, roomId, <<message>>,
                                      "applied")
           ELSE /\ sent' = {}
                /\ last' = Invocation("sendMessage", s, roomId, <<message>>,
                                      "ignored")
                /\ UNCHANGED roomMessages
    /\ UNCHANGED <<roomStates, roomListeners, songVotes, registry, sockets, clock>>

----------------------------------------------------------------------------
(* socket.on('disconnect').  The socket has left its socket.io rooms by the *)
(* time the handler runs.                                                   *)

\* messages.filter(msg => msg.userId !== userId)
WithoutMessagesOf(messages, userId) ==
    SelectSeq(messages, LAMBDA msg : msg.userId # userId)

\* TeardownDue that also deletes a room created by "system".
TeardownDueAnyRoom(roomListener, roomId) ==
    MapSize(roomListener) = 0 /\ MapHas(roomStates, roomId)

\* if (roomListener.size === 0 && roomState && roomState.createdBy !== "system")
TeardownDue(roomListener, roomId) ==
    /\ MapSize(roomListener) = 0
    /\ MapHas(roomStates, roomId)
    /\ roomStates[roomId].createdBy # System

Disconnect(s) ==
    /\ sockets[s].connected
    /\ sockets' = [sockets EXCEPT ![s].connected = FALSE]
    /\ LET currentRoomId == sockets[s].currentRoomId
           others == InRoom(currentRoomId) \ {s}
       IN  IF /\ currentRoomId # NoRoom
              /\ MapHas(roomListeners, currentRoomId)
              /\ MapHas(roomListeners[currentRoomId], s)
           THEN LET listener == roomListeners[currentRoomId][s]
                    roomListener == MapDelete(roomListeners[currentRoomId], s)
                    filtered ==
                        IF MapHas(roomMessages, currentRoomId)
                        THEN MapSet(roomMessages, currentRoomId,
                                    WithoutMessagesOf(roomMessages[currentRoomId],
                                                      listener.userId))
                        ELSE roomMessages
                    teardown == TeardownDue(roomListener, currentRoomId)
                IN  /\ sent' =
                          {[to |-> t, event |-> "messagesRemoved",
                            userId |-> listener.userId] :
                               t \in IF MapHas(roomMessages, currentRoomId)
                                     THEN others ELSE {}}
                          \cup {[to |-> t, event |-> "listenersUpdate",
                                 listeners |-> DOMAIN roomListener] : t \in others}
                    /\ IF teardown
                       THEN /\ roomStates' = MapDelete(roomStates, currentRoomId)
                            /\ roomListeners' = MapDelete(roomListeners, currentRoomId)
                            /\ songVotes' = MapDelete(songVotes, currentRoomId)
                            /\ roomMessages' = MapDelete(roomMessages, currentRoomId)
                            /\ storageRooms' = MapDelete(storageRooms, currentRoomId)
                            /\ last' = Invocation("disconnect", s, currentRoomId,
                                                  << >>, "teardown")
                       ELSE /\ roomListeners' = MapSet(roomListeners, currentRoomId,
                                                       roomListener)
                            /\ roomMessages' = filtered
                            /\ last' = Invocation("disconnect", s, currentRoomId,
                                                  << >>, "applied")
                            /\ UNCHANGED <<roomStates, songVotes, storageRooms>>
           ELSE /\ sent' = {}
                /\ last' = Invocation("disconnect", s, currentRoomId, << >>, "ignored")
                /\ UNCHANGED <<maps, storageRooms>>
    /\ UNCHANGED <<roomSeq, pending, clock>>

----------------------------------------------------------------------------
(* setInterval(() => roomStates.forEach(...), 5000) *)

\* AutoAdvanceDue without the test on createdBy: the callback advances the
\* private rooms too.
AutoAdvanceDueAnyCreator(roomState) ==
    /\ roomState.isPlaying
    /\ Len(roomState.playlist) > 0
    /\ HasCurrentSong(roomState)
    /\ LET currentSong == roomState.playlist[roomState.currentSongIndex + 1]
           currentPosition == roomState.pausedAt + (now - roomState.playbackStartTime)
       IN  currentPosition >= DurationSeconds(currentSong)

\* The callback's test on one room.
AutoAdvanceDue(roomState) ==
    /\ roomState.createdBy = System
    /\ roomState.isPlaying
    /\ Len(roomState.playlist) > 0
    /\ HasCurrentSong(roomState)
    /\ LET currentSong == roomState.playlist[roomState.currentSongIndex + 1]
           currentPosition == roomState.pausedAt + (now - roomState.playbackStartTime)
       IN  currentPosition >= DurationSeconds(currentSong)

\* AutoAdvanced that consults isLooped the way nextSong's wrap does: without
\* the loop flag the last track is not left.
AutoAdvancedIfLooped(roomState) ==
    [roomState EXCEPT
       !.currentSongIndex =
           IF @ = Len(roomState.playlist) - 1 /\ ~roomState.isLooped THEN @
           ELSE (@ + 1) % Len(roomState.playlist),
       !.pausedAt = 0,
       !.playbackStartTime = now]

\* The room state after the callback advances the room.
AutoAdvanced(roomState) ==
    [roomState EXCEPT
       !.currentSongIndex = (@ + 1) % Len(roomState.playlist),
       !.pausedAt = 0,
       !.playbackStartTime = now]

AutoAdvance ==
    /\ now = timerDue
    /\ timerDue' = now + PollInterval
    /\ LET due == {r \in DOMAIN roomStates : AutoAdvanceDue(roomStates[r])}
       IN  /\ roomStates' = [r \in DOMAIN roomStates |->
                               IF r \in due THEN AutoAdvanced(roomStates[r])
                               ELSE roomStates[r]]
           /\ sent' = UNION {PlaylistUpdates(roomListeners, r,
                                             AutoAdvanced(roomStates[r]),
                                             [currentPosition |-> 0]) : r \in due}
           /\ last' = Invocation("autoAdvance", 0, NoRoom, << >>,
                                 IF due = {} THEN "ignored" ELSE "applied")
    /\ UNCHANGED <<roomListeners, songVotes, roomMessages, registry, sockets, now>>

\* One second passes; the interval callback runs when it is due.
Tick ==
    /\ now < MaxTime
    /\ now < timerDue
    /\ now' = now + 1
    /\ sent' = {}
    /\ UNCHANGED <<maps, registry, sockets, timerDue, last>>

----------------------------------------------------------------------------
(* Specifications.  Each one lets a part of the environment act: which     *)
(* clients are connected, which rooms they address and what they send.     *)

\* The playlist of the public room: one client adds, votes, shuffles, reorders.
ListSockets == {1}

ListUsers == {"u1"}

ListSongs == {SongA, SongB}

Indices == -1..MaxLen

ListInit == InitWith(ListSockets)

ListNext ==
    \/ \E s \in ListSockets, u \in ListUsers : JoinRoom(s, PublicRoomId, u)
    \/ \E s \in ListSockets, song \in ListSongs : AddToPlaylist(s, song, PublicRoomId)
    \/ \E s \in ListSockets, song \in ListSongs : VoteSong(s, song.id, PublicRoomId)
    \/ \E s \in ListSockets : ToggleShuffle(s, PublicRoomId)
    \/ \E s \in ListSockets : ToggleLoop(s, PublicRoomId)
    \/ \E s \in ListSockets, from \in Indices, to \in Indices :
          ReorderSongs(s, PublicRoomId, from, to)
    \/ \E s \in ListSockets : Disconnect(s)

Spec == ListInit /\ [][ListNext]_vars

\* Voting in the public room: three clients join, add, vote and leave.
VoteSockets == {1, 2, 3}

VoteUsers == {"u1", "u2"}

VoteSongs == {SongA, SongB}

VoteInit == InitWith(VoteSockets)

VoteNext ==
    \/ \E s \in VoteSockets, u \in VoteUsers : JoinRoom(s, PublicRoomId, u)
    \/ \E s \in VoteSockets, song \in VoteSongs : AddToPlaylist(s, song, PublicRoomId)
    \/ \E s \in VoteSockets, song \in VoteSongs : VoteSong(s, song.id, PublicRoomId)
    \/ \E s \in VoteSockets : Disconnect(s)

VoteSpec == VoteInit /\ [][VoteNext]_vars

\* The private rooms the registry has handed out so far: a client learns a
\* room's id from the registry.
AllocatedRoomIds == {r \in PrivateRoomIds : r <= roomSeq}

\* Transport in a private room: its creator plays, pauses, seeks and skips
\* while the clock runs.
PlaySockets == {1}

PlayUsers == {"u1"}

PlaySongs == {SongA, SongB}

SeekPositions == {0, 2}

PlayInit == InitWith(PlaySockets)

PlayNext ==
    \/ \E u \in PlayUsers : CreateRoom("Jam", u)
    \/ \E s \in PlaySockets, r \in AllocatedRoomIds, u \in PlayUsers :
          JoinRoom(s, r, u)
    \/ \E s \in PlaySockets, r \in AllocatedRoomIds, song \in PlaySongs :
          AddToPlaylist(s, song, r)
    \/ \E s \in PlaySockets, r \in AllocatedRoomIds : TogglePlayPause(s, r)
    \/ \E s \in PlaySockets, r \in AllocatedRoomIds, position \in SeekPositions,
          isPlaying \in BOOLEAN : Seek(s, position, r, isPlaying)
    \/ \E s \in PlaySockets, r \in AllocatedRoomIds : NextSong(s, r)
    \/ \E s \in PlaySockets, r \in AllocatedRoomIds : PreviousSong(s, r)
    \/ AutoAdvance
    \/ Tick

PlaySpec == PlayInit /\ [][PlayNext]_vars

\* Authority: the creator of a private room and a second client are in the
\* private room and address it and the public room.
GateSockets == {1, 2}

GateUsers == {"u1", "u2", System}

GateCreators == {"u1"}

GateSongs == {SongA}

GateInit == InitWith(GateSockets)

GateNext ==
    \/ \E u \in GateCreators : CreateRoom("Jam", u)
    \/ \E s \in GateSockets, r \in AllocatedRoomIds, u \in GateUsers :
          JoinRoom(s, r, u)
    \/ \E s \in GateSockets, r \in RoomIds, song \in GateSongs :
          AddToPlaylist(s, song, r)
    \/ \E s \in GateSockets, r \in RoomIds : TogglePlayPause(s, r)
    \/ \E s \in GateSockets, r \in RoomIds, position \in SeekPositions,
          isPlaying \in BOOLEAN : Seek(s, position, r, isPlaying)
    \/ \E s \in GateSockets, r \in RoomIds : NextSong(s, r)
    \/ \E s \in GateSockets, r \in RoomIds : PreviousSong(s, r)

GateSpec == GateInit /\ [][GateNext]_vars

\* Leaving: two clients, each with its own user id, join the public room and
\* a private room, add, chat and disconnect.
LeaveSockets == {1, 2}

LeaveUser == (1 :> "u1") @@ (2 :> "u2")

LeaveSongs == {SongA}

Texts == {<<" ">>, <<" ", "h", "i", " ">>}

LeaveInit == InitWith(LeaveSockets)

LeaveNext ==
    \/ CreateRoom("Jam", LeaveUser[1])
    \/ \E s \in LeaveSockets, r \in {PublicRoomId} \cup AllocatedRoomIds :
          JoinRoom(s, r, LeaveUser[s])
    \/ \E s \in LeaveSockets, r \in RoomIds, song \in LeaveSongs :
          AddToPlaylist(s, song, r)
    \/ \E s \in LeaveSockets, r \in RoomIds, message \in Texts :
          SendMessage(s, r, message)
    \/ \E s \in LeaveSockets : Disconnect(s)

LeaveSpec == LeaveInit /\ [][LeaveNext]_vars

\* The public room under the clock: one client joins, adds, shuffles and
\* loops while the interval callback runs.
TimerSockets == {1}

TimerUsers == {"u1"}

TimerSongs == {SongA, SongB}

TimerInit == InitWith(TimerSockets)

TimerNext ==
    \/ \E s \in TimerSockets, u \in TimerUsers : JoinRoom(s, PublicRoomId, u)
    \/ \E s \in TimerSockets, song \in TimerSongs :
          AddToPlaylist(s, song, PublicRoomId)
    \/ \E s \in TimerSockets : ToggleShuffle(s, PublicRoomId)
    \/ \E s \in TimerSockets : ToggleLoop(s, PublicRoomId)
    \/ AutoAdvance
    \/ Tick

TimerSpec == TimerInit /\ [][TimerNext]_vars

\* The same room when the client also votes tracks out and leaves.  The
\* interval callback runs whenever it is due, and time passes.
FairSongs == {SongB}

FairNext ==
    \/ \E s \in TimerSockets, u \in TimerUsers : JoinRoom(s, PublicRoomId, u)
    \/ \E s \in TimerSockets, song \in FairSongs :
          AddToPlaylist(s, song, PublicRoomId)
    \/ \E s \in TimerSockets, song \in FairSongs :
          VoteSong(s, song.id, PublicRoomId)
    \/ \E s \in TimerSockets : ToggleShuffle(s, PublicRoomId)
    \/ \E s \in TimerSockets : Disconnect(s)
    \/ AutoAdvance
    \/ Tick

TimerFairSpec ==
    TimerInit /\ [][FairNext]_vars /\ WF_vars(AutoAdvance) /\ WF_vars(Tick)

\* Playlist management: the creator of a private room joins it and manages
\* its playlist; a second client joins it or the public room, adds tracks
\* and asks both rooms to reorder, shuffle and loop.
ManageSockets == {1, 2}

ManageUser == (1 :> "u1") @@ (2 :> "u2")

ManageSongs == {SongA, SongB}

ManageIndices == {0, 1}

ManageInit == InitWith(ManageSockets)

ManageNext ==
    \/ CreateRoom("Jam", ManageUser[1])
    \/ \E r \in AllocatedRoomIds : JoinRoom(1, r, ManageUser[1])
    \/ \E r \in {PublicRoomId} \cup AllocatedRoomIds : JoinRoom(2, r, ManageUser[2])
    \/ \E r \in RoomIds, song \in ManageSongs : AddToPlaylist(2, song, r)
    \/ \E r \in AllocatedRoomIds : ToggleShuffle(1, r)
    \/ \E r \in RoomIds : ToggleShuffle(2, r)
    \/ \E r \in AllocatedRoomIds : ToggleLoop(1, r)
    \/ \E r \in RoomIds : ToggleLoop(2, r)
    \/ \E r \in AllocatedRoomIds, from \in ManageIndices, to \in ManageIndices :
          ReorderSongs(1, r, from, to)
    \/ \E r \in RoomIds, from \in ManageIndices, to \in ManageIndices :
          ReorderSongs(2, r, from, to)

ManageSpec == ManageInit /\ [][ManageNext]_vars

\* Broadcasts: two clients each join one room, public or private.  In the
\* first second the creator of the private room issues every kind of
\* mutation; then time passes and the interval callback runs.
CastSockets == {1, 2}

CastUser == (1 :> "u1") @@ (2 :> "u2")

CastSongs == {SongB}

CastInit == InitWith(CastSockets)

\* No time has passed since the server started.
Early == now = StartTime

CastNext ==
    \/ Early /\ CreateRoom("Jam", CastUser[1])
    \/ \E s \in CastSockets, r \in {PublicRoomId} \cup AllocatedRoomIds :
          Early /\ sockets[s].currentRoomId = NoRoom /\ JoinRoom(s, r, CastUser[s])
    \/ \E r \in RoomIds, song \in CastSongs : Early /\ AddToPlaylist(1, song, r)
    \/ \E r \in AllocatedRoomIds, song \in CastSongs :
          Early /\ VoteSong(1, song.id, r)
    \/ \E r \in AllocatedRoomIds : Early /\ TogglePlayPause(1, r)
    \/ \E r \in AllocatedRoomIds, isPlaying \in BOOLEAN :
          Early /\ Seek(1, 0, r, isPlaying)
    \/ \E r \in AllocatedRoomIds : Early /\ NextSong(1, r)
    \/ \E r \in AllocatedRoomIds : Early /\ PreviousSong(1, r)
    \/ \E r \in AllocatedRoomIds : Early /\ ReorderSongs(1, r, 0, 0)
    \/ \E r \in AllocatedRoomIds : Early /\ ToggleShuffle(1, r)
    \/ \E r \in AllocatedRoomIds : Early /\ ToggleLoop(1, r)
    \/ AutoAdvance
    \/ Tick

CastSpec == CastInit /\ [][CastNext]_vars

\* Two rooms side by side: the creator of the private room joins it and a
\* second client joins the public room.  In the first second the creator
\* addresses either room with requests and either client may leave; then
\* time passes and the interval callback runs.
PairSockets == {1, 2}

PairUser == (1 :> "u1") @@ (2 :> "u2")

PairSongs == {SongB}

PairInit == InitWith(PairSockets)

PairNext ==
    \/ Early /\ CreateRoom("Jam", PairUser[1])
    \/ \E r \in AllocatedRoomIds :
          Early /\ sockets[1].currentRoomId = NoRoom /\ JoinRoom(1, r, PairUser[1])
    \/ Early /\ sockets[2].currentRoomId = NoRoom
             /\ JoinRoom(2, PublicRoomId, PairUser[2])
    \/ \E r \in RoomIds, song \in PairSongs : Early /\ AddToPlaylist(1, song, r)
    \/ \E r \in RoomIds, song \in PairSongs : Early /\ VoteSong(1, song.id, r)
    \/ \E r \in RoomIds : Early /\ TogglePlayPause(1, r)
    \/ \E r \in RoomIds : Early /\ ToggleLoop(1, r)
    \/ \E s \in PairSockets : Early /\ Disconnect(s)
    \/ AutoAdvance
    \/ Tick

PairSpec == PairInit /\ [][PairNext]_vars

\* Seeking anywhere: the creator of a private room plays, pauses and seeks
\* to positions a client can put in the request, one of them before the
\* start of the track, while the clock runs.
ScrubSockets == {1}

ScrubUser == (1 :> "u1")

ScrubSongs == {SongA}

ScrubPositions == {-1, 0, 2}

ScrubInit == InitWith(ScrubSockets)

ScrubNext ==
    \/ CreateRoom("Jam", ScrubUser[1])
    \/ \E r \in AllocatedRoomIds : JoinRoom(1, r, ScrubUser[1])
    \/ \E r \in AllocatedRoomIds, song \in ScrubSongs : AddToPlaylist(1, song, r)
    \/ \E r \in AllocatedRoomIds : TogglePlayPause(1, r)
    \/ \E r \in AllocatedRoomIds, position \in ScrubPositions, isPlaying \in BOOLEAN :
          Seek(1, position, r, isPlaying)
    \/ AutoAdvance
    \/ Tick

ScrubSpec == ScrubInit /\ [][ScrubNext]_vars

\* Skipping by vote while the clock runs: one client in the public room
\* adds tracks and votes them out at any time, and the interval callback
\* runs when it is due.
SkipSockets == {1}

SkipUser == (1 :> "u1")

SkipSongs == {SongA, SongB}

SkipInit == InitWith(SkipSockets)

SkipNext ==
    \/ JoinRoom(1, PublicRoomId, SkipUser[1])
    \/ \E song \in SkipSongs : AddToPlaylist(1, song, PublicRoomId)
    \/ \E song \in SkipSongs : VoteSong(1, song.id, PublicRoomId)
    \/ AutoAdvance
    \/ Tick

SkipSpec == SkipInit /\ [][SkipNext]_vars

\* Interleaved room creation: two users post createRoom requests under two
\* names, and the event loop may run any other request between the lookup
\* of a request and its creation.  Clients join the rooms and leave them,
\* which frees the names of the rooms torn down.  The requests arrive in the
\* first second; then time passes and the interval callback runs.
RaceSockets == {1, 2}

RaceUser == (1 :> "u1") @@ (2 :> "u2")

RaceNames == {"Jam", "Den"}

RaceInit == InitWith(RaceSockets)

RaceNext ==
    \/ \E name \in RaceNames, s \in RaceSockets :
          Early /\ CreateRoomLookup(name, RaceUser[s])
    \/ \E request \in pending : Early /\ CreateRoomStore(request)
    \/ \E s \in RaceSockets, r \in DOMAIN roomStates \ {PublicRoomId} :
          Early /\ JoinRoom(s, r, RaceUser[s])
    \/ \E s \in RaceSockets : Early /\ Disconnect(s)
    \/ AutoAdvance
    \/ Tick

RaceSpec == RaceInit /\ [][RaceNext]_vars

----------------------------------------------------------------------------
(* Properties *)

\* This step is a run of handler op.
Handles(op) == last'.op = op /\ now' = now

\* The handler that just ran was op, on a room that is still there.
Ran(op, result) ==
    last.op = op /\ last.result = result /\ MapHas(roomStates, last.room)

HasDuplicates(list) ==
    \E i, j \in 1..Len(list) : i # j /\ list[i].id = list[j].id

\* C1: whenever a room's playlist is non-empty, its currentSongIndex is an
\* index of the playlist: 0 <= currentSongIndex < len(playlist).
C1_CursorInRange ==
    \A r \in DOMAIN roomStates :
        Len(roomStates[r].playlist) > 0 => HasCurrentSong(roomStates[r])

\* C5: no two entries of a room's playlist have the same track id.
C5_NoDuplicateTracks ==
    \A r \in DOMAIN roomStates : ~HasDuplicates(roomStates[r].playlist)

\* C8: enabling shuffle on an unshuffled room and disabling it in the very
\* next step leaves the playlist that the enabling toggle found.
C8_ShuffleRoundTrip ==
    [][(/\ Ran("toggleShuffle", "applied")
        /\ roomStates[last.room].isShuffled
        /\ Handles("toggleShuffle")
        /\ last'.result = "applied"
        /\ last'.room = last.room)
       => roomStates'[last.room].playlist = last.args[1]]_vars

\* C4: in every room with a current track the play-head is at most the
\* track's duration, give or take one polling interval.
C4_PlayHeadWithinDuration ==
    \A r \in DOMAIN roomStates :
        LET st == roomStates[r]
        IN  (Len(st.playlist) > 0 /\ HasCurrentSong(st))
            => PlayHead(st, now)
                 <= DurationSeconds(st.playlist[st.currentSongIndex + 1])
                      + PollInterval

\* C7: an accepted Add into an empty playlist leaves currentSongIndex = 0,
\* isPlaying = TRUE, pausedAt = 0 and playbackStartTime = now.
C7_AddIntoEmptyStarts ==
    [][(/\ Handles("addToPlaylist")
        /\ last'.result = "applied"
        /\ Len(roomStates[last'.room].playlist) = 0)
       => LET st == roomStates'[last'.room]
          IN  /\ st.currentSongIndex = 0
              /\ st.isPlaying
              /\ st.pausedAt = 0
              /\ st.playbackStartTime = now]_vars

\* C10: after an accepted Seek(position, isPlaying), and until the next
\* handler runs, pausedAt = position and isPlaying is as asked; the play-head
\* is position plus the time since the seek when playing, else position.
C10_SeekSetsPlayHead ==
    Ran("seek", "applied") =>
        LET st == roomStates[last.room]
            position == last.args[1]
            isPlaying == last.args[2]
        IN  /\ st.pausedAt = position
            /\ st.isPlaying = isPlaying
            /\ PlayHead(st, now) = IF isPlaying THEN position + (now - last.at)
                                   ELSE position

\* C10 witness: a playing seek to a position other than 0, some seconds ago.
C10_Witness ==
    /\ Ran("seek", "applied")
    /\ Len(roomStates[last.room].playlist) > 0
    /\ last.args[2]
    /\ last.args[1] > 0
    /\ now >= last.at + 2

TransportOps == {"togglePlayPause", "seek", "nextSong", "previousSong"}

\* C2: a TogglePlayPause, Seek, Next or Previous from a requester who is not
\* the room's creator, or on a room created by "system", changes nothing and
\* sends nothing.
C2_TransportGate ==
    [][\A op \in TransportOps :
          (/\ Handles(op)
           /\ MapHas(roomStates, last'.room)
           /\ \/ sockets[last'.socket].currentUserId
                    # roomStates[last'.room].createdBy
              \/ roomStates[last'.room].createdBy = System)
          => (UNCHANGED maps /\ sent' = {})]_vars

\* C2 witness: a client whose user id is "system" asked the public room,
\* which has a track, for a transport change.
C2_Witness ==
    /\ last.op \in TransportOps
    /\ last.room = PublicRoomId
    /\ sockets[last.socket].currentUserId = System
    /\ Len(roomStates[PublicRoomId].playlist) > 0

\* C3: a Vote on a track with a tally removes the track exactly when the
\* voters after the toggle number at least half the listeners (rounded up);
\* otherwise only the tally changes; a Vote on a track without a tally
\* changes and sends nothing.
C3_VoteThreshold ==
    [][(/\ Handles("voteSong")
        /\ sockets[last'.socket].currentUserId # Null
        /\ MapHas(roomListeners, last'.room)
        /\ MapHas(songVotes, last'.room))
       => LET r == last'.room
              id == last'.args[1]
              voter == sockets[last'.socket].currentUserId
          IN  IF MapHas(songVotes[r], id)
              THEN LET tally == songVotes[r][id]
                       voters == IF voter \in tally THEN tally \ {voter}
                                 ELSE tally \cup {voter}
                       k == FindIndex(roomStates[r].playlist, id)
                   IN  /\ k # -1
                       /\ IF 2 * Cardinality(voters) >= MapSize(roomListeners[r])
                          THEN /\ roomStates'[r].playlist
                                    = RemoveAt(roomStates[r].playlist, k)
                               /\ ~MapHas(songVotes'[r], id)
                          ELSE /\ roomStates' = roomStates
                               /\ songVotes'[r][id] = voters
              ELSE UNCHANGED maps /\ sent' = {}]_vars

\* C3 witness: with three listeners a second voter removed a track.
C3_Witness ==
    /\ Ran("voteSong", "removed")
    /\ MapSize(roomListeners[last.room]) = 3
    /\ \E m \in sent : m.event = "voteUpdate" /\ m.votes = 2 /\ m.required = 2

\* C6: an Add of a track whose id is in the playlist changes nothing and
\* sends one error, to the requester.
C6_DuplicateAddRejected ==
    [][(/\ Handles("addToPlaylist")
        /\ MapHas(roomStates, last'.room)
        /\ \E i \in 1..Len(roomStates[last'.room].playlist) :
              roomStates[last'.room].playlist[i].id = last'.args[1])
       => /\ UNCHANGED maps
          /\ \E m \in sent' : sent' = {m} /\ m.to = last'.socket /\ m.event = "error"]_vars

\* C6 witness: a duplicate Add was rejected in a room with other listeners.
C6_Witness ==
    /\ Ran("addToPlaylist", "rejected")
    /\ MapSize(roomListeners[last.room]) >= 2
    /\ \E i \in 1..Len(roomStates[last.room].playlist) :
          roomStates[last.room].playlist[i].id = last.args[1]

\* C9: an accepted Reorder on a room with a current track leaves a current
\* track with the same id.
C9_ReorderKeepsCurrent ==
    [][(/\ Handles("reorderSongs")
        /\ last'.result = "applied"
        /\ HasCurrentSong(roomStates[last'.room]))
       => /\ HasCurrentSong(roomStates'[last'.room])
          /\ CurrentSongId(roomStates'[last'.room])
               = CurrentSongId(roomStates[last'.room])]_vars

\* C9 witness: a track was moved across the current one, whose index changed.
C9_Witness ==
    /\ Ran("reorderSongs", "applied")
    /\ ~HasDuplicates(roomStates[last.room].playlist)
    /\ last.args[1] < last.args[2]
    /\ roomStates[last.room].currentSongIndex = last.args[2] - 1

\* C11: an accepted TogglePlayPause flips isPlaying; pausing makes pausedAt
\* the old pausedAt plus the time since playbackStartTime, resuming sets
\* playbackStartTime = now and keeps pausedAt; either way the play-head right
\* after the toggle is the play-head right before it.
C11_ToggleContinuity ==
    [][(Handles("togglePlayPause") /\ last'.result = "applied")
       => LET before == roomStates[last'.room]
              after == roomStates'[last'.room]
          IN  /\ after.isPlaying = ~before.isPlaying
              /\ before.isPlaying
                   => after.pausedAt
                        = before.pausedAt + (now - before.playbackStartTime)
              /\ ~before.isPlaying
                   => /\ after.playbackStartTime = now
                      /\ after.pausedAt = before.pausedAt
              /\ PlayHead(after, now) = PlayHead(before, now)]_vars

\* C11 witness: a pause that folded some seconds of playing into pausedAt.
C11_Witness ==
    /\ Ran("togglePlayPause", "applied")
    /\ ~roomStates[last.room].isPlaying
    /\ Len(roomStates[last.room].playlist) > 0
    /\ roomStates[last.room].playbackStartTime > 0
    /\ last.at > roomStates[last.room].playbackStartTime
    /\ roomStates[last.room].pausedAt > 0

\* C12: an accepted Next or Previous on a non-empty playlist leaves
\* pausedAt = 0, isPlaying = TRUE and playbackStartTime = now, whether the
\* room was playing or paused.
C12_AdvanceRestartsPlayback ==
    [][((Handles("nextSong") \/ Handles("previousSong"))
        /\ last'.result = "applied"
        /\ Len(roomStates[last'.room].playlist) > 0)
       => LET st == roomStates'[last'.room]
          IN  st.pausedAt = 0 /\ st.isPlaying /\ st.playbackStartTime = now]_vars

\* The track ids in a list.
TrackIds(list) == {list[i].id : i \in 1..Len(list)}

\* C13: when a Vote removes a track, the track is afterwards in neither
\* playlist nor originalPlaylist and has no tally, so nothing can bring it
\* back into the playlist.
C13_VoteRemovesEverywhere ==
    [][(Handles("voteSong") /\ last'.result = "removed")
       => LET st == roomStates'[last'.room]
              id == last'.args[1]
          IN  /\ id \notin TrackIds(st.playlist)
              /\ id \notin TrackIds(st.originalPlaylist)
              /\ ~MapHas(songVotes'[last'.room], id)]_vars

\* C14: in every room, the track ids that have a vote tally are exactly the
\* track ids in the room's playlist.
C14_TallyIffInPlaylist ==
    \A r \in DOMAIN roomStates :
        /\ MapHas(songVotes, r)
        /\ DOMAIN songVotes[r] = TrackIds(roomStates[r].playlist)

\* C15: when the last member of a room that has a playback state leaves, the
\* room's playback state, membership entry, vote tallies and chat messages
\* are all deleted if the room was not created by "system", and otherwise
\* the playback state and tallies stay as they were, with no listeners.
C15_LeaveTeardown ==
    [][(/\ Handles("disconnect")
        /\ MapHas(roomStates, last'.room)
        /\ MapHas(roomListeners, last'.room)
        /\ DOMAIN roomListeners[last'.room] = {last'.socket})
       => LET r == last'.room
          IN  IF roomStates[r].createdBy # System
              THEN /\ ~MapHas(roomStates', r)
                   /\ ~MapHas(roomListeners', r)
                   /\ ~MapHas(songVotes', r)
                   /\ ~MapHas(roomMessages', r)
              ELSE /\ MapHas(roomStates', r)
                   /\ roomStates'[r] = roomStates[r]
                   /\ songVotes'[r] = songVotes[r]
                   /\ MapSize(roomListeners'[r]) = 0]_vars

\* C15 witness: the last listener left the public room, which keeps its
\* track with nobody listening, and the private room that had been created
\* is gone.
C15_Witness ==
    /\ last.op = "disconnect"
    /\ last.room = PublicRoomId
    /\ last.result = "applied"
    /\ MapSize(roomListeners[PublicRoomId]) = 0
    /\ Len(roomStates[PublicRoomId].playlist) > 0
    /\ roomSeq > 0
    /\ \A r \in AllocatedRoomIds : ~MapHas(roomStates, r)

\* C16: when the interval callback runs, every room created by "system" that
\* is playing a non-empty playlist with a current track whose play-head has
\* reached the track's duration gets currentSongIndex = (currentSongIndex + 1)
\* mod len(playlist), pausedAt = 0 and playbackStartTime = now, whatever
\* isLooped is.
C16_AutonomousAdvance ==
    [][Handles("autoAdvance")
       => \A r \in DOMAIN roomStates :
            LET st == roomStates[r]
            IN  (/\ st.createdBy = System
                 /\ st.isPlaying
                 /\ Len(st.playlist) > 0
                 /\ HasCurrentSong(st)
                 /\ PlayHead(st, now)
                      >= DurationSeconds(st.playlist[st.currentSongIndex + 1]))
                => /\ roomStates'[r].currentSongIndex
                        = (st.currentSongIndex + 1) % Len(st.playlist)
                   /\ roomStates'[r].pausedAt = 0
                   /\ roomStates'[r].playbackStartTime = now]_vars

\* C16 witness: the callback just advanced the public room from the last of
\* two tracks back to the first, with isLooped off.
C16_Witness ==
    /\ last.op = "autoAdvance"
    /\ last.result = "applied"
    /\ last.at = now
    /\ Len(roomStates[PublicRoomId].playlist) = 2
    /\ ~HasDuplicates(roomStates[PublicRoomId].playlist)
    /\ roomStates[PublicRoomId].currentSongIndex = 0
    /\ ~roomStates[PublicRoomId].isLooped
    /\ roomStates[PublicRoomId].playbackStartTime = now

\* The interval callback is about to run while the public room is playing a
\* non-empty playlist and has played for at least as long as each of its
\* tracks lasts.
TrackOverdue ==
    LET st == roomStates[PublicRoomId]
    IN  /\ now = timerDue
        /\ Len(st.playlist) > 0
        /\ \A i \in 1..Len(st.playlist) :
              PlayHead(st, now) >= DurationSeconds(st.playlist[i])

\* The interval callback has just advanced a room.
JustAdvanced ==
    last.op = "autoAdvance" /\ last.result = "applied" /\ last.at = now

\* C17: in the public room, once the current track's duration has elapsed
\* the next run of the interval callback advances the room (unless the
\* playlist has been emptied first), whatever the members did before.
C17_AdvanceLiveness ==
    TrackOverdue ~> (JustAdvanced \/ Len(roomStates[PublicRoomId].playlist) = 0)

\* The list after the entry at fromIndex is moved to toIndex.
Moved(list, fromIndex, toIndex) ==
    InsertAt(RemoveAt(list, fromIndex), toIndex, list[fromIndex + 1])

\* C18: a Reorder, ToggleShuffle or ToggleLoop from a client with a member
\* id is applied when the room was created by "system" or by that member,
\* and otherwise changes nothing and sends nothing.
C18_PlaylistControlGate ==
    [][(/\ \E op \in {"reorderSongs", "toggleShuffle", "toggleLoop"} : Handles(op)
        /\ MapHas(roomStates, last'.room)
        /\ sockets[last'.socket].currentUserId # Null)
       => LET r == last'.room
              st == roomStates[r]
              n == Len(st.playlist)
          IN  IF \/ st.createdBy = System
                 \/ st.createdBy = sockets[last'.socket].currentUserId
              THEN /\ last'.op = "toggleLoop"
                        => /\ roomStates'[r].isLooped = ~st.isLooped
                           /\ sent' = PlaylistUpdates(roomListeners, r,
                                                      roomStates'[r], NoExtra)
                   /\ last'.op = "toggleShuffle"
                        => /\ roomStates'[r].isShuffled = ~st.isShuffled
                           /\ sent' = PlaylistUpdates(roomListeners, r,
                                                      roomStates'[r], NoExtra)
                   /\ (/\ last'.op = "reorderSongs"
                       /\ last'.args[1] \in 0..(n - 1)
                       /\ last'.args[2] \in 0..(n - 1))
                        => /\ roomStates'[r].playlist
                                = Moved(st.playlist, last'.args[1], last'.args[2])
                           /\ sent' = PlaylistUpdates(roomListeners, r,
                                                      roomStates'[r], PreserveAudio)
              ELSE UNCHANGED maps /\ sent' = {}]_vars

\* C18 witness: a member of a private room who is not its creator asked to
\* reorder, shuffle or loop its two tracks and was ignored.
C18_Witness ==
    /\ last.op \in {"reorderSongs", "toggleShuffle", "toggleLoop"}
    /\ last.result = "ignored"
    /\ last.room \in PrivateRoomIds
    /\ MapHas(roomStates, last.room)
    /\ MapHas(roomListeners[last.room], last.socket)
    /\ sockets[last.socket].currentUserId # roomStates[last.room].createdBy
    /\ Len(roomStates[last.room].playlist) = 2

\* C19: a Reorder from an allowed requester whose fromIndex or toIndex is
\* not an index of the playlist leaves playlist, originalPlaylist and
\* currentSongIndex unchanged, sends no snapshot, and sends the requester a
\* report of the rejection.
C19_MalformedReorderReported ==
    [][(/\ Handles("reorderSongs")
        /\ PlaylistControlAllowed(last'.socket, last'.room)
        /\ LET n == Len(roomStates[last'.room].playlist)
           IN  last'.args[1] \notin 0..(n - 1) \/ last'.args[2] \notin 0..(n - 1))
       => /\ roomStates' = roomStates
          /\ \A m \in sent' : m.event # "playlistUpdate"
          /\ \E m \in sent' : m.to = last'.socket]_vars

MutationOps ==
    {"addToPlaylist", "voteSong", "togglePlayPause", "seek", "nextSong",
     "previousSong", "reorderSongs", "toggleShuffle", "toggleLoop"}

\* This step is an accepted mutation of room r: a handler applied a change
\* to it (or removed a track from it), or its playback state changed.
Mutates(r) ==
    \/ /\ last'.room = r
       /\ \E op \in MutationOps : Handles(op)
       /\ last'.result \in {"applied", "removed"}
    \/ roomStates'[r] # roomStates[r]

\* The snapshots among the messages of the latest step.
Snapshots(messages) == {m \in messages : m.event = "playlistUpdate"}

\* C20: every accepted mutation of a room, by a handler or by the interval
\* callback, sends each connection in the room's registry exactly one
\* snapshot, which carries the room's state after the mutation and an
\* isCreator flag that is true exactly when that connection's user id is the
\* room's createdBy.
C20_SnapshotFanOut ==
    [][\A r \in (DOMAIN roomStates) \cap (DOMAIN roomStates') :
          (Mutates(r) /\ MapHas(roomListeners, r))
          => \A l \in DOMAIN roomListeners[r] :
                /\ Cardinality({m \in Snapshots(sent') : m.to = l}) = 1
                /\ \A m \in Snapshots(sent') :
                      m.to = l
                      => /\ m.state = roomStates'[r]
                         /\ m.isCreator
                              = (roomListeners[r][l].userId
                                   = roomStates'[r].createdBy)]_vars

\* C20 witness: a mutation of a room with two listeners sent two snapshots,
\* one to the creator and one to the other listener.
C20_Witness ==
    /\ last.op \in MutationOps
    /\ last.result \in {"applied", "removed"}
    /\ last.at = now
    /\ MapHas(roomStates, last.room)
    /\ MapSize(roomListeners[last.room]) = 2
    /\ Cardinality(Snapshots(sent)) = 2
    /\ \E m1, m2 \in Snapshots(sent) : m1.isCreator /\ ~m2.isCreator

\* C21: in the voteUpdate messages of a Vote that left the track in place,
\* the hasVoted each recipient gets is true exactly when that recipient's own
\* user id is in the track's tally.
C21_HasVotedPerRecipient ==
    [][(Handles("voteSong") /\ last'.result = "counted")
       => \A m \in sent' :
            m.event = "voteUpdate"
            => m.hasVoted
                 = (sockets[m.to].currentUserId
                      \in songVotes'[last'.room][last'.args[1]])]_vars

\* C22: a snapshot sent after an accepted Add has preserveAudioState = TRUE
\* only if the Add changed which track is the current one; every snapshot
\* sent after an accepted Reorder has preserveAudioState = TRUE.
C22_PreserveAudioOnAdd ==
    [][/\ (Handles("addToPlaylist") /\ last'.result = "applied")
          => \A m \in Snapshots(sent') :
                m.extra.preserveAudioState
                => CurrentSongId(roomStates'[last'.room])
                     # CurrentSongId(roomStates[last'.room])
       /\ (Handles("reorderSongs") /\ last'.result = "applied")
          => \A m \in Snapshots(sent') : m.extra.preserveAudioState]_vars

\* C23: after a Leave from a room that stays, no track is left in the room's
\* playlist whose tally is non-empty and has at least as many voters as the
\* threshold for the listeners that remain.
C23_LeaveRechecksQuorum ==
    [][(/\ Handles("disconnect")
        /\ last'.result = "applied"
        /\ MapHas(roomStates', last'.room)
        /\ MapHas(songVotes', last'.room))
       => LET r == last'.room
              required == RequiredVotes(MapSize(roomListeners'[r]))
          IN  \A id \in TrackIds(roomStates'[r].playlist) :
                 MapHas(songVotes'[r], id)
                 => \/ songVotes'[r][id] = {}
                    \/ Cardinality(songVotes'[r][id]) < required]_vars

C25_EmptyPlaylistNoOps ==
    [][(/\ \E op \in {"togglePlayPause", "seek", "nextSong", "previousSong",
                       "reorderSongs", "toggleShuffle", "voteSong"} : Handles(op)
        /\ MapHas(roomStates, last'.room)
        /\ Len(roomStates[last'.room].playlist) = 0)
       => roomStates'[last'.room] = roomStates[last'.room]]_vars

\* Room b has the playback state, tallies and registry it had.
RoomUntouched(b) ==
    /\ MapHas(roomStates', b) /\ roomStates'[b] = roomStates[b]
    /\ MapHas(songVotes, b)
         => (MapHas(songVotes', b) /\ songVotes'[b] = songVotes[b])
    /\ MapHas(roomListeners, b)
         => (MapHas(roomListeners', b) /\ roomListeners'[b] = roomListeners[b])

\* C26: a request addressed to one room (a mutation, a Join, a Leave with or
\* without teardown) leaves the playback state, tallies and registry of
\* every other room as they were and sends snapshots only to connections in
\* the addressed room's registry; a run of the interval callback leaves the
\* tallies and registries alone and sends snapshots only to connections in
\* the registry of a room it advanced.
C26_RoomIndependence ==
    [][IF last'.op = "autoAdvance"
       THEN /\ UNCHANGED <<songVotes, roomListeners>>
            /\ \A m \in Snapshots(sent') :
                  \E a \in DOMAIN roomStates :
                     /\ roomStates'[a] # roomStates[a]
                     /\ MapHas(roomListeners[a], m.to)
       ELSE now' = now
            => /\ \A b \in DOMAIN roomStates :
                     b # last'.room => RoomUntouched(b)
               /\ \A m \in Snapshots(sent') :
                     /\ MapHas(roomListeners', last'.room)
                     /\ MapHas(roomListeners'[last'.room], m.to)]_vars

\* C26 witness: the private room was just changed and its listener told,
\* while the public room has a track, a tally and a listener of its own.
C26_Witness ==
    /\ last.op \in MutationOps
    /\ last.result = "applied"
    /\ last.room \in PrivateRoomIds
    /\ MapHas(roomStates, last.room)
    /\ Snapshots(sent) # {}
    /\ Len(roomStates[PublicRoomId].playlist) > 0
    /\ DOMAIN songVotes[PublicRoomId] # {}
    /\ \E l \in DOMAIN roomListeners[PublicRoomId] :
          ~MapHas(roomListeners[last.room], l)

\* C27: whatever the interleaving of createRoom requests, no two rooms of
\* the registry share a name.
C27_UniqueRoomNames ==
    \A a \in DOMAIN storageRooms, b \in DOMAIN storageRooms :
       a # b => storageRooms[a].name # storageRooms[b].name

\* Room r is created by "system", is playing, has a current track, and its
\* play-head has reached that track's duration.
TimerEligible(r) ==
    LET st == roomStates[r]
    IN  /\ st.createdBy = System
        /\ st.isPlaying
        /\ HasCurrentSong(st)
        /\ PlayHead(st, now) >= DurationSeconds(st.playlist[st.currentSongIndex + 1])

\* C28: a run of the interval callback changes the state only of rooms that
\* are created by "system", are playing, have a current track and whose
\* play-head has reached that track's duration, and every message it sends
\* is such a room's new state sent to a connection of that room's registry;
\* every other room (private, paused, empty or mid-track) keeps its state
\* and nothing is sent for it.
C28_TimerFrame ==
    [][Handles("autoAdvance")
       => /\ \A r \in DOMAIN roomStates :
                ~TimerEligible(r)
                => (MapHas(roomStates', r) /\ roomStates'[r] = roomStates[r])
          /\ \A m \in sent' :
                \E r \in DOMAIN roomStates :
                   /\ TimerEligible(r)
                   /\ MapHas(roomListeners, r)
                   /\ m.to \in DOMAIN roomListeners[r]
                   /\ m.event = "playlistUpdate"
                   /\ m.state = roomStates'[r]
          /\ DOMAIN roomStates' = DOMAIN roomStates
          /\ UNCHANGED <<roomListeners, songVotes, roomMessages>>]_vars

\* The callback has just advanced the public room and has left alone a
\* private room that is playing a track whose duration has elapsed.
C28_Witness ==
    /\ JustAdvanced
    /\ sent # {}
    /\ \E r \in DOMAIN roomStates :
          LET st == roomStates[r]
          IN  /\ st.createdBy # System
              /\ st.isPlaying
              /\ HasCurrentSong(st)
              /\ PlayHead(st, now) >=
                    DurationSeconds(st.playlist[st.currentSongIndex + 1])
              /\ MapSize(roomListeners[r]) > 0

\* C29: an accepted Next sets currentSongIndex to (currentSongIndex + 1) mod
\* len(playlist), whatever isLooped is, and a Previous after it would bring
\* the index back to what it was; an accepted Previous sets it to
\* currentSongIndex - 1, or to len(playlist) - 1 when it was 0.
C29_ManualAdvanceCursor ==
    [][/\ (Handles("nextSong") /\ last'.result = "applied")
          => LET before == roomStates[last'.room]
                 after == roomStates'[last'.room]
             IN  /\ after.currentSongIndex =
                       (before.currentSongIndex + 1) % Len(before.playlist)
                 /\ PreviousCursor(after) = before.currentSongIndex
       /\ (Handles("previousSong") /\ last'.result = "applied")
          => LET before == roomStates[last'.room]
                 after == roomStates'[last'.room]
             IN  after.currentSongIndex =
                    IF before.currentSongIndex = 0 THEN Len(before.playlist) - 1
                    ELSE before.currentSongIndex - 1]_vars

\* C30: an accepted ToggleShuffle, enabling or disabling, on a room whose
\* playlist is non-empty and whose currentSongIndex is in range leaves
\* currentSongIndex on a track with the same id as before, whichever order
\* the shuffle produces.
C30_ShuffleKeepsCurrentTrack ==
    [][(/\ Handles("toggleShuffle")
        /\ last'.result = "applied"
        /\ HasCurrentSong(roomStates[last'.room]))
       => LET before == roomStates[last'.room]
              after == roomStates'[last'.room]
          IN  /\ HasCurrentSong(after)
              /\ CurrentSongId(after) = CurrentSongId(before)]_vars

\* A toggleShuffle has just reordered a playlist of several tracks and the
\* current track is now at index 0, where another track was before.
C30_Witness ==
    /\ Ran("toggleShuffle", "applied")
    /\ LET st == roomStates[last.room]
           read == last.args[1]
       IN  /\ Len(read) >= 2
           /\ Len(st.playlist) >= 2
           /\ st.playlist # read
           /\ st.currentSongIndex = 0
           /\ st.playlist[1].id # read[1].id

\* The bag of track ids of a list.
IdCount(list, id) == Cardinality({i \in 1..Len(list) : list[i].id = id})

SameTracks(a, b) ==
    /\ Len(a) = Len(b)
    /\ \A id \in TrackIds(a) \cup TrackIds(b) : IdCount(a, id) = IdCount(b, id)

\* C31: an accepted ToggleShuffle leaves pausedAt, isPlaying,
\* playbackStartTime and isLooped as they were, never changes
\* originalPlaylist, and when it enables shuffling the playlist holds the
\* same tracks as before.
C31_ShuffleFrame ==
    [][(Handles("toggleShuffle") /\ last'.result = "applied")
       => LET before == roomStates[last'.room]
              after == roomStates'[last'.room]
          IN  /\ after.pausedAt = before.pausedAt
              /\ after.isPlaying = before.isPlaying
              /\ after.playbackStartTime = before.playbackStartTime
              /\ after.isLooped = before.isLooped
              /\ after.originalPlaylist = before.originalPlaylist
              /\ after.isShuffled = ~before.isShuffled
              /\ after.isShuffled => SameTracks(after.playlist, before.playlist)]_vars

\* A toggleShuffle has just shuffled the playlist of a playing, looped room
\* into another order.
C31_Witness ==
    /\ Ran("toggleShuffle", "applied")
    /\ LET st == roomStates[last.room]
       IN  /\ st.isShuffled
           /\ st.isPlaying
           /\ st.isLooped
           /\ Len(st.playlist) >= 2
           /\ st.playlist # last.args[1]

\* C32: when a Vote removes the track at index i, currentSongIndex goes down
\* by one exactly when i <= currentSongIndex and currentSongIndex > 0 and is
\* otherwise unchanged, the other tracks keep their order, and when the
\* removed track was not the current one the current track is the same
\* track as before.
C32_VoteRemovalCursor ==
    [][(Handles("voteSong") /\ last'.result = "removed")
       => LET before == roomStates[last'.room]
              after == roomStates'[last'.room]
              cursor == before.currentSongIndex
          IN  \E i \in 0..(Len(before.playlist) - 1) :
                 /\ before.playlist[i + 1].id = last'.args[1]
                 /\ Len(after.playlist) = Len(before.playlist) - 1
                 /\ \A k \in 1..Len(after.playlist) :
                       after.playlist[k] =
                          before.playlist[IF k <= i THEN k ELSE k + 1]
                 /\ after.currentSongIndex =
                       IF i <= cursor /\ cursor > 0 THEN cursor - 1 ELSE cursor
                 /\ i # cursor => CurrentSongId(after) = CurrentSongId(before)]_vars

\* A Vote has just removed one of three tracks and the current track is the
\* second of the two that are left.
C32_Witness ==
    /\ Ran("voteSong", "removed")
    /\ LET st == roomStates[last.room]
       IN  /\ Len(st.playlist) = 2
           /\ st.currentSongIndex = 1
           /\ last.args[1] \notin TrackIds(st.playlist)

\* C33: in every reachable state the play-head of every room (pausedAt when
\* not playing, else pausedAt + (now - playbackStartTime)) is at least 0,
\* whatever position a Seek carries.
C33_PlayHeadNonNegative ==
    \A r \in DOMAIN roomStates : PlayHead(roomStates[r], now) >= 0

\* C34: at every moment a connection is in the registry of at most one
\* room; a connection that joins another room is taken out of the registry
\* of the room it was in.
C34_SingleRoomMembership ==
    \A s \in SocketIds :
       Cardinality({r \in DOMAIN roomListeners : MapHas(roomListeners[r], s)}) <= 1

\* The member ids of the connections in the registry of room r.
MemberIds(r) ==
    IF MapHas(roomListeners, r)
    THEN {roomListeners[r][l].userId : l \in DOMAIN roomListeners[r]}
    ELSE {}

\* C35: every voter in a tally of a room is the member id of a connection
\* now in that room's registry, so no tally is larger than the registry.
C35_VotersAreMembers ==
    \A r \in DOMAIN songVotes :
       \A id \in DOMAIN songVotes[r] :
          /\ songVotes[r][id] \subseteq MemberIds(r)
          /\ Cardinality(songVotes[r][id]) <= MapSize(roomListeners[r])

\* C36: in every room playlist and originalPlaylist hold the same track
\* ids; they are equal when isShuffled is false, and playlist is a
\* permutation of originalPlaylist when it is true.
C36_PlaylistOriginalConsistent ==
    \A r \in DOMAIN roomStates :
       LET st == roomStates[r]
       IN  /\ TrackIds(st.playlist) = TrackIds(st.originalPlaylist)
           /\ ~st.isShuffled => st.playlist = st.originalPlaylist
           /\ st.isShuffled => SameTracks(st.playlist, st.originalPlaylist)

\* C37: an Add, Vote, Reorder, ToggleShuffle, ToggleLoop or transport
\* request addressed to a room changes that room's playback state or
\* tallies only if the connection that sent it is in the room's registry.
C37_MutationsFromMembers ==
    [][\A r \in DOMAIN roomStates :
          (/\ \E op \in MutationOps : Handles(op)
           /\ last'.room = r
           /\ \/ roomStates'[r] # roomStates[r]
              \/ songVotes'[r] # songVotes[r])
          => (MapHas(roomListeners, r) /\ MapHas(roomListeners[r], last'.socket))]_vars

\* C38: whenever a request or the interval callback moves a room from one
\* current track to another (a Next or Previous, an advance by the
\* callback, the vote removal of the current track), pausedAt is 0
\* afterwards and, if the room is playing, playbackStartTime is the time of
\* the step.
C38_PlayHeadResetOnTrackChange ==
    [][\A r \in (DOMAIN roomStates) \cap (DOMAIN roomStates') :
          LET before == roomStates[r]
              after == roomStates'[r]
          IN  (/\ now' = now
               /\ HasCurrentSong(before)
               /\ HasCurrentSong(after)
               /\ CurrentSongId(after) # CurrentSongId(before))
              => /\ after.pausedAt = 0
                 /\ after.isPlaying => after.playbackStartTime = now]_vars

\* C39: a room id has a registry, a tally map or a chat log only if it has
\* a playback state.
C39_NoOrphanRoomState ==
    /\ DOMAIN roomListeners \subseteq DOMAIN roomStates
    /\ DOMAIN songVotes \subseteq DOMAIN roomStates
    /\ DOMAIN roomMessages \subseteq DOMAIN roomStates

\* C40: a room created by "system" is playing in every reachable state in
\* which its playlist is not empty; no request of a client pauses it.
C40_SystemRoomKeepsPlaying ==
    \A r \in DOMAIN roomStates :
       (roomStates[r].createdBy = System /\ Len(roomStates[r].playlist) > 0)
       => roomStates[r].isPlaying

\* A client that joined under the user id "system" has just asked to pause
\* or to seek in the public room while it had a track, and was ignored.
C40_Witness ==
    /\ last.op \in {"togglePlayPause", "seek"}
    /\ last.room = PublicRoomId
    /\ last.result = "ignored"
    /\ sockets[last.socket].currentUserId = System
    /\ Len(roomStates[PublicRoomId].playlist) > 0
    /\ roomStates[PublicRoomId].isPlaying

====
